---- MODULE Spec2Model ----
(***************************************************************************)
(* Lumo's Trello (src/app.js): a kanban board kept in one process-wide     *)
(* variable `state`, saved to localStorage after every mutation, with JSON *)
(* export/import and a one-time migration from an older storage key.       *)
(*                                                                         *)
(* JavaScript values are tagged records, so that values of different types *)
(* can be compared; a text (a storage item, a file) is a different kind of *)
(* value from the value it serialises.                                     *)
(***************************************************************************)
EXTENDS Integers, Sequences, FiniteSets, TLC

VARIABLES
  phase,     \* "boot": line 32 not yet run; "idle": event loop; "dead": the script threw
  state,     \* the binding `let state` (line 32); Uninit while in its dead zone
  storeV2,   \* localStorage item STORAGE_KEY_V2
  storeOld,  \* localStorage item STORAGE_KEY_OLD
  reading,   \* the text a FileReader is reading (importBoardFromFile), or NoFile
  call,      \* the handler that ran last: its name, arguments, outcome, the state before it
  uidCount,  \* how many times uid() has been called
  clock,     \* how many handlers have run; nowISO() reads it
  other      \* the binding `state` of a second tab on the same localStorage;
             \* Uninit while no second tab is open

vars == <<phase, state, storeV2, storeOld, reading, call, uidCount, clock, other>>

(* ---------------------------- bounds ---------------------------------- *)
\* Handler runs after startup in one explored run (starting a file read is
\* not counted: it changes neither the board nor the storage).
MaxOps == 2
\* Columns, counted from the left, whose controls and cards the user touches.
MaxPick == 2

(* ------------------------ JavaScript values --------------------------- *)
Undefined == [t |-> "undefined"]
Null == [t |-> "null"]
Bool(b) == [t |-> "bool", b |-> b]
Str(s) == [t |-> "str", s |-> s]
Num(n) == [t |-> "num", n |-> n]
Arr(a) == [t |-> "arr", a |-> a]
Obj(o) == [t |-> "obj", o |-> o]
\* A `let` binding read or written before its initializer has completed.
Uninit == [t |-> "uninitialized"]

IsNullish(v) == v.t \in {"undefined", "null"}

\* ToBoolean, as `!x`, `if (x)` and `x ? a : b` apply it.
Truthy(v) ==
  CASE v.t \in {"undefined", "null"} -> FALSE
    [] v.t = "bool" -> v.b
    [] v.t = "str" -> v.s # ""
    [] v.t = "num" -> v.n # 0
    [] OTHER -> TRUE

\* v.k for a v that is neither null nor undefined (on those the read throws a
\* TypeError, which every caller tests first).  Only own data properties of
\* plain objects are looked up: a string's or array's `length` is never read
\* by the code under the names used here.
Get(v, k) == IF v.t = "obj" /\ k \in DOMAIN v.o THEN v.o[k] ELSE Undefined

\* a ?? b
Coalesce(v, d) == IF IsNullish(v) THEN d ELSE v

\* Array.isArray(v)
IsArray(v) == v.t = "arr"

\* typeof v === "object": true of null, arrays and plain objects.
TypeofIsObject(v) == v.t \in {"null", "arr", "obj"}

\* typeof v === "string"
TypeofIsString(v) == v.t = "str"

Range(s) == {s[i] : i \in DOMAIN s}

\* The property key an array index turns into (Object.entries of an array).
IndexKey(i) == <<"0", "1", "2", "3">>[i]

\* Object.entries(v) as a set of <<key, value>>: the own properties of an
\* object, the indices of an array, nothing for a number or a boolean.
\* (No text in this model holds a string where `cards` is expected.)
ObjectEntries(v) ==
  CASE v.t = "obj" -> {<<k, v.o[k]>> : k \in DOMAIN v.o}
    [] v.t = "arr" -> {<<IndexKey(i), v.a[i]>> : i \in DOMAIN v.a}
    [] OTHER -> {}

(* ------------------------------ texts --------------------------------- *)
\* localStorage.getItem of a key that is not set.
NoItem == [k |-> "none"]
\* A text that is not JSON ("" included).
Raw(s) == [k |-> "raw", s |-> s]
\* The JSON text of value v, printed with the given indentation.
JsonText(v, indent) == [k |-> "json", v |-> v, indent |-> indent]

\* What JSON.stringify keeps of a value: a property whose value is undefined
\* is dropped, an undefined array element becomes null.
RECURSIVE Serialise(_)
Serialise(v) ==
  CASE v.t = "arr" ->
         Arr([i \in DOMAIN v.a |->
                IF v.a[i].t = "undefined" THEN Null ELSE Serialise(v.a[i])])
    [] v.t = "obj" ->
         LET kept == {k \in DOMAIN v.o : v.o[k].t # "undefined"}
         IN Obj([k \in kept |-> Serialise(v.o[k])])
    [] OTHER -> v

\* JSON.stringify(v, null, indent)
JSONstringify(v, indent) == JsonText(Serialise(v), indent)

\* JSON.parse(text): the value, or a SyntaxError.  Indentation is whitespace.
JSONparse(text) ==
  IF text.k = "json" THEN [ok |-> TRUE, v |-> text.v] ELSE [ok |-> FALSE, v |-> Undefined]

(* ------------------------ constants of app.js ------------------------- *)
CATEGORY_OPTIONS == <<"assignment", "lab", "project", "mod", "unfinished">>

\* CATEGORY_OPTIONS.some((c) => c.key === v)
IsCategory(v) == v.t = "str" /\ v.s \in Range(CATEGORY_OPTIONS)

\* uid(prefix): `${prefix}_${Math.random()...}_${Date.now()...}`, a string no
\* earlier call returned; n counts the calls made before this one.
ListUids == <<
     "list_01", "list_02", "list_03", "list_04", "list_05", "list_06", "list_07", "list_08",
     "list_09", "list_10", "list_11", "list_12", "list_13", "list_14", "list_15", "list_16",
     "list_17", "list_18", "list_19", "list_20", "list_21", "list_22", "list_23", "list_24",
     "list_25", "list_26", "list_27", "list_28", "list_29", "list_30", "list_31", "list_32",
     "list_33", "list_34", "list_35", "list_36", "list_37", "list_38", "list_39", "list_40",
     "list_41", "list_42", "list_43", "list_44", "list_45", "list_46", "list_47", "list_48",
     "list_49", "list_50", "list_51", "list_52", "list_53", "list_54", "list_55", "list_56",
     "list_57", "list_58", "list_59", "list_60"
  >>
CardUids == <<
     "card_01", "card_02", "card_03", "card_04", "card_05", "card_06", "card_07", "card_08",
     "card_09", "card_10", "card_11", "card_12", "card_13", "card_14", "card_15", "card_16",
     "card_17", "card_18", "card_19", "card_20", "card_21", "card_22", "card_23", "card_24",
     "card_25", "card_26", "card_27", "card_28", "card_29", "card_30", "card_31", "card_32",
     "card_33", "card_34", "card_35", "card_36", "card_37", "card_38", "card_39", "card_40",
     "card_41", "card_42", "card_43", "card_44", "card_45", "card_46", "card_47", "card_48",
     "card_49", "card_50", "card_51", "card_52", "card_53", "card_54", "card_55", "card_56",
     "card_57", "card_58", "card_59", "card_60"
  >>
uid(prefix, n) == IF prefix = "list" THEN ListUids[n + 1] ELSE CardUids[n + 1]

\* nowISO() when the clock reads c.
IsoTimes == <<
     "2026-01-01T00:00:00.000Z", "2026-01-01T00:00:01.000Z", "2026-01-01T00:00:02.000Z",
     "2026-01-01T00:00:03.000Z", "2026-01-01T00:00:04.000Z", "2026-01-01T00:00:05.000Z",
     "2026-01-01T00:00:06.000Z", "2026-01-01T00:00:07.000Z", "2026-01-01T00:00:08.000Z",
     "2026-01-01T00:00:09.000Z", "2026-01-01T00:00:10.000Z", "2026-01-01T00:00:11.000Z"
  >>
nowISO(c) == IsoTimes[c + 1]


(* ---------------------------- the board ------------------------------- *)
\* { id, title, cardIds } and { id, title, createdAt, category, dueDate }
ListObj(id, title, cardIds) == Obj([id |-> id, title |-> title, cardIds |-> cardIds])
CardObj(id, title, createdAt, category, dueDate) ==
  Obj([id |-> id, title |-> title, createdAt |-> createdAt,
       category |-> category, dueDate |-> dueDate])
\* { version: 2, lists, cards }
BoardObj(lists, cards) == Obj([version |-> Num(2), lists |-> Arr(lists), cards |-> Obj(cards)])

\* state.lists as a sequence and state.cards as a function from keys, for a
\* board of the V2 shape.
ListsOf(b) == b.o.lists.a
CardsOf(b) == b.o.cards.o
WithLists(b, ls) == Obj([b.o EXCEPT !.lists = Arr(ls)])
WithCards(b, cs) == Obj([b.o EXCEPT !.cards = Obj(cs)])
CardIdsOf(l) == l.o.cardIds.a
WithCardIds(l, ids) == Obj([l.o EXCEPT !.cardIds = Arr(ids)])

\* A function with key k removed / set.
Without(f, ks) == [k \in DOMAIN f \ ks |-> f[k]]
Put(f, k, v) == [x \in DOMAIN f \cup {k} |-> IF x = k THEN v ELSE f[x]]

\* arr.filter((x) => x !== v)
FilterOut(s, v) == SelectSeq(s, LAMBDA x : x # v)
\* arr.includes(v)
Includes(s, v) == v \in Range(s)
\* The least index in I, 0 when I is empty: where arr.find stops.
First(I) == IF I = {} THEN 0 ELSE CHOOSE i \in I : \A j \in I : i <= j
\* state.lists.find((l) => l.id === listId), as an index into lists (0: none).
FindList(lists, listId) == First({i \in DOMAIN lists : Get(lists[i], "id") = listId})
\* state.lists.find((l) => l.cardIds.includes(cardId)), as an index (0: none).
FindListHolding(lists, cardId) ==
  First({i \in DOMAIN lists : cardId \in Range(lists[i].o.cardIds.a)})

(* --------------------------- starter board ---------------------------- *)
\* starterStateV2(): five cards, then five lists, each with a fresh uid; n uid
\* calls were made before, the clock reads c.  (The titles' emoji are left out.)
starterStateV2(n, c) ==
  LET mkCard(i, title, category) ==
        CardObj(Str(uid("card", n + i - 1)), Str(title), Str(nowISO(c)), Str(category), Null)
      cid(i) == uid("card", n + i - 1)
      lid(i) == Str(uid("list", n + 5 + i - 1))
  IN BoardObj(
       << ListObj(lid(1), Str("Assignments"), Arr(<<Str(cid(1))>>)),
          ListObj(lid(2), Str("Labs"), Arr(<<Str(cid(2))>>)),
          ListObj(lid(3), Str("Projects"), Arr(<<Str(cid(3))>>)),
          ListObj(lid(4), Str("Mods"), Arr(<<Str(cid(4))>>)),
          ListObj(lid(5), Str("Unfinished"), Arr(<<Str(cid(5))>>)) >>,
       (cid(1) :> mkCard(1, "Add your assignments for the week", "assignment"))
         @@ (cid(2) :> mkCard(2, "Track GA labs you haven't finished", "lab"))
         @@ (cid(3) :> mkCard(3, "Ship Mod-Vault features (UI/UX)", "project"))
         @@ (cid(4) :> mkCard(4, "Unfinished mod tasks (Bannerlord/BG3/etc.)", "mod"))
         @@ (cid(5) :> mkCard(5, "Move old tasks here when paused", "unfinished")))
\* uid() calls one starterStateV2() makes.
StarterUids == 10

(* ---------------------------- persistence ----------------------------- *)
\* saveStateV2(): the text written under STORAGE_KEY_V2.
saveStateV2(b) == JSONstringify(b, 0)

\* loadStateV2(): the parsed document, or null.
loadStateV2(raw) ==
  IF raw = NoItem \/ raw = Raw("") THEN Null
  ELSE LET p == JSONparse(raw)
       IN IF ~p.ok THEN Null
          ELSE IF ~Truthy(p.v) \/ Get(p.v, "version") # Num(2) THEN Null
          ELSE p.v

\* loadOldState(): the parsed document, or null.
loadOldState(raw) ==
  IF raw = NoItem \/ raw = Raw("") THEN Null
  ELSE LET p == JSONparse(raw)
       IN IF ~p.ok THEN Null ELSE p.v

\* How many of the first i - 1 entries of s have no id: the uid() calls the
\* map callback made before it reached entry i.
UidsBefore(s, i) == Cardinality({j \in 1..(i - 1) : IsNullish(Get(s[j], "id"))})

\* Lines 105-123: the object `migrated`, or the TypeError thrown on the way
\* (old.lists is not an array, so has no map; a list or card entry is null).
\* old.lists and old.cards are truthy here.
MigratedBoard(old, n, c) ==
  LET lists == Get(old, "lists")
      cards == ObjectEntries(Get(old, "cards"))
  IN IF ~IsArray(lists) \/ \E i \in DOMAIN lists.a : IsNullish(lists.a[i])
       \/ \E e \in cards : IsNullish(e[2])
     THEN [k |-> "throw", e |-> "TypeError", v |-> Undefined, uids |-> 0]
     ELSE [k |-> "value", e |-> "none",
           v |-> BoardObj(
                   [i \in DOMAIN lists.a |->
                      LET l == lists.a[i]
                      IN ListObj(
                           Coalesce(Get(l, "id"), Str(uid("list", n + UidsBefore(lists.a, i)))),
                           Coalesce(Get(l, "title"), Str("Untitled")),
                           IF IsArray(Get(l, "cardIds")) THEN Get(l, "cardIds") ELSE Arr(<<>>))],
                   [id \in {e[1] : e \in cards} |->
                      LET card == (CHOOSE e \in cards : e[1] = id)[2]
                      IN CardObj(
                           Coalesce(Get(card, "id"), Str(id)),
                           Coalesce(Get(card, "title"), Str("Untitled")),
                           Coalesce(Get(card, "createdAt"), Str(nowISO(c))),
                           Str("project"),
                           Null)]),
           uids |-> UidsBefore(lists.a, Len(lists.a) + 1)]

\* migrateFromOldState(old), called while the binding `state` holds `binding`
\* and STORAGE_KEY_V2 holds `stored`.  Line 126 assigns to `state`: while the
\* initializer of `let state` (line 32) is still being evaluated the binding
\* is in its temporal dead zone and the assignment throws a ReferenceError.
\* k: "return" | "throw"; v: the value returned; state, stored: the binding
\* and the storage item afterwards.
migrateFromOldState(old, binding, stored, n, c) ==
  IF ~Truthy(old) \/ ~Truthy(Get(old, "lists")) \/ ~Truthy(Get(old, "cards"))
  THEN [k |-> "return", e |-> "none", v |-> Null, state |-> binding, stored |-> stored, uids |-> 0]
  ELSE LET m == MigratedBoard(old, n, c)
       IN IF m.k = "throw"
          THEN [k |-> "throw", e |-> m.e, v |-> Undefined,
                state |-> binding, stored |-> stored, uids |-> 0]
          ELSE IF binding = Uninit
          THEN [k |-> "throw", e |-> "ReferenceError", v |-> Undefined,
                state |-> binding, stored |-> stored, uids |-> m.uids]
          ELSE [k |-> "return", e |-> "none", v |-> m.v,
                state |-> m.v, stored |-> saveStateV2(m.v), uids |-> m.uids]

(* ----------------------------- rendering ------------------------------ *)
\* render() builds the DOM from `state` and changes nothing else; what matters
\* here is whether it throws.  state.lists.forEach needs an array, list.id and
\* list.cardIds.forEach need a list object with an array, and state.cards[id]
\* needs state.cards not to be null or undefined.
renderThrows(b) ==
  LET lists == Get(b, "lists")
  IN \/ ~IsArray(lists)
     \/ \E i \in DOMAIN lists.a :
          \/ IsNullish(lists.a[i])
          \/ ~IsArray(Get(lists.a[i], "cardIds"))
          \/ Get(lists.a[i], "cardIds").a # <<>> /\ IsNullish(Get(b, "cards"))


(* ------------------------- texts the runs draw ------------------------ *)
\* A saved V2 board: two lists, two cards.
SavedBoard ==
  BoardObj(<< ListObj(Str("L1"), Str("Todo"), Arr(<<Str("C1"), Str("C2")>>)),
              ListObj(Str("L2"), Str("Done"), Arr(<<>>)) >>,
           ("C1" :> CardObj(Str("C1"), Str("x"), Str("2025-05-05T10:00:00.000Z"), Str("lab"),
                            Str("2025-06-01")))
             @@ ("C2" :> CardObj(Str("C2"), Str("y"), Str("2025-05-05T11:00:00.000Z"),
                                 Str("mod"), Null)))

\* What STORAGE_KEY_V2 may hold when the page is opened.
V2Texts ==
  { NoItem, Raw(""), Raw("not json"),
    JsonText(Null, 0), JsonText(Num(2), 0), JsonText(Arr(<<>>), 0),
    JsonText(Obj([lists |-> Arr(<<>>), cards |-> Obj(<<>>)]), 0),
    JsonText(Obj([version |-> Str("2"), lists |-> Arr(<<>>), cards |-> Obj(<<>>)]), 0),
    JsonText(Obj([version |-> Num(1), lists |-> Arr(<<>>), cards |-> Obj(<<>>)]), 0),
    JsonText(Obj([version |-> Num(2)]), 0),
    JsonText(SavedBoard, 0) }

\* What STORAGE_KEY_OLD may hold when the page is opened.
OldTexts ==
  { NoItem, Raw(""), Raw("not json"),
    JsonText(Null, 0), JsonText(Str("x"), 0), JsonText(Arr(<<>>), 0),
    JsonText(Obj(<<>>), 0),
    JsonText(Obj([lists |-> Arr(<<>>)]), 0),
    JsonText(Obj([lists |-> Null, cards |-> Obj(<<>>)]), 0),
    JsonText(Obj([lists |-> Arr(<<>>), cards |-> Obj(<<>>)]), 0),
    JsonText(Obj([lists |-> Arr(<<Obj([id |-> Str("L1")])>>),
                  cards |-> Obj("C1" :> Obj([title |-> Str("x")]))]), 0),
    JsonText(Obj([lists |-> Arr(<<Obj([title |-> Str("Todo"), cardIds |-> Arr(<<Str("C1")>>)]),
                                  Obj([id |-> Str("L2"), cardIds |-> Str("C1")])>>),
                  cards |-> Obj("C1" :> Obj([id |-> Str("C1"), title |-> Str("x"),
                                             createdAt |-> Str("2024-01-01T00:00:00.000Z")]))]),
             0),
    JsonText(Obj([lists |-> Num(5), cards |-> Obj(<<>>)]), 0),
    JsonText(Obj([lists |-> Arr(<<Null>>), cards |-> Obj(<<>>)]), 0),
    JsonText(Obj([lists |-> Arr(<<>>), cards |-> Obj("C1" :> Null)]), 0),
    JsonText(Obj([lists |-> Arr(<<>>), cards |-> Arr(<<Obj([title |-> Str("x")])>>)]), 0) }

\* No FileReader is reading.
NoFile == [k |-> "nofile"]
\* No handler has run since control returned to the event loop.
NoCall == [op |-> "none"]

(* ------------------------------ startup ------------------------------- *)
\* The top level of app.js: line 32,
\*   let state = loadStateV2() ?? migrateFromOldState(loadOldState()) ?? starterStateV2();
\* then the listeners (540-556), render() and toast() (559-560).  An error
\* thrown by line 32 ends the script: `state` stays uninitialized and no
\* listener is registered.
Startup ==
  /\ phase = "boot"
  /\ LET loaded == loadStateV2(storeV2)
         mig == migrateFromOldState(loadOldState(storeOld), state, storeV2, uidCount, clock)
         Finish(tier, b, stored, n) ==
           /\ phase' = "idle"
           /\ state' = b
           /\ storeV2' = stored
           /\ uidCount' = n
           /\ call' = [op |-> "startup", tier |-> tier,
                       err |-> IF renderThrows(b) THEN "TypeError" ELSE "none",
                       toast |-> IF renderThrows(b) THEN "" ELSE "Loaded Lumo's Trello",
                       preV2 |-> storeV2, preOld |-> storeOld]
     IN IF ~IsNullish(loaded) THEN Finish("load", loaded, storeV2, uidCount)
        ELSE IF mig.k = "throw"
        THEN /\ phase' = "dead"
             /\ state' = mig.state
             /\ storeV2' = mig.stored
             /\ uidCount' = uidCount + mig.uids
             /\ call' = [op |-> "startup", tier |-> "migrate", err |-> mig.e, toast |-> "",
                         preV2 |-> storeV2, preOld |-> storeOld]
        ELSE IF ~IsNullish(mig.v)
        THEN Finish("migrate", mig.state, mig.stored, uidCount + mig.uids)
        ELSE Finish("seed", starterStateV2(uidCount, clock), storeV2, uidCount + StarterUids)
  /\ clock' = clock + 1
  /\ UNCHANGED <<storeOld, reading, other>>

\* The page is opened on a browser whose storage holds any of the texts above.
InitBoot ==
  /\ phase = "boot"
  /\ state = Uninit
  /\ storeV2 \in V2Texts
  /\ storeOld \in OldTexts
  /\ reading = NoFile
  /\ call = NoCall
  /\ uidCount = 0
  /\ clock = 0
  /\ other = Uninit

SpecBoot == InitBoot /\ [][Startup]_vars


(* ------------------------ strings the user types ---------------------- *)
\* s.trim(), on the strings the runs type or store.
Trim(s) ==
  CASE s = "   " -> ""
    [] s = " Sprint " -> "Sprint"
    [] s = " Fix bug " -> "Fix bug"
    [] s = " LAB " -> "LAB"
    [] s = " 2026-12-01 " -> "2026-12-01"
    [] OTHER -> s

\* s.toLowerCase(), on the same strings.
ToLowerCase(s) ==
  CASE s = "LAB" -> "lab"
    [] s = "Sprint" -> "sprint"
    [] s = "Fix bug" -> "fix bug"
    [] OTHER -> s

\* The property key a value used as an index turns into (ToPropertyKey).
PropertyKey(v) ==
  CASE v.t = "str" -> v.s
    [] v.t = "num" -> IndexKey(v.n + 1)
    [] v.t = "null" -> "null"
    [] v.t = "bool" -> IF v.b THEN "true" ELSE "false"
    [] OTHER -> "undefined"

\* Members every plain object inherits from Object.prototype: obj[k] finds a
\* function (an object, for __proto__) under these keys though obj has no such
\* property of its own.
ObjectPrototypeKeys ==
  {"constructor", "toString", "valueOf", "hasOwnProperty", "isPrototypeOf", "__proto__"}
\* What obj[k] finds on the prototype: truthy, with no title, category or id.
Inherited(k) == [t |-> "fn", name |-> k]

\* state.cards[cardId]: the card stored under that key, else what the object
\* inherits under it, else undefined.  state.cards is a plain object ({} or
\* the result of JSON.parse).
CardAt(b, cardId) ==
  LET cards == Get(b, "cards")
      k == PropertyKey(cardId)
  IN IF cards.t = "obj" /\ k \in DOMAIN cards.o THEN cards.o[k]
     ELSE IF cards.t = "obj" /\ k \in ObjectPrototypeKeys THEN Inherited(k)
     ELSE Undefined

(* ----------------------- the mutation handlers ------------------------ *)
\* Each handler is a function of the board and its inputs (arguments, prompt()
\* and confirm() answers, the uid count, the clock).  done: whether it went
\* past its early returns; b: `state` afterwards; toast: the message shown.
\* A handler that goes past its early returns ends with saveStateV2(),
\* render() and toast().
Early(b) == [done |-> FALSE, b |-> b, toast |-> ""]
\* A handler that changes `state` and shows its toast without saveStateV2().
DoneUnsaved(b, msg) == [done |-> FALSE, b |-> b, toast |-> msg]
Done(b, msg) == [done |-> TRUE, b |-> b, toast |-> msg]

\* createList(title), lines 343-349
createList(b, title, n) ==
  Done(WithLists(b, Append(ListsOf(b), ListObj(Str(uid("list", n)), title, Arr(<<>>)))),
       "List added")

\* renameList(listId), lines 351-364; answer is what prompt() returned, null
\* when cancelled.
renameList(b, listId, answer) ==
  LET i == FindList(ListsOf(b), listId)
  IN IF i = 0 THEN Early(b)
     ELSE IF answer = Null THEN Early(b)
     ELSE IF Trim(answer.s) = "" THEN Early(b)
     ELSE Done(WithLists(b, [ListsOf(b) EXCEPT ![i] =
                               Obj([@.o EXCEPT !.title = Str(Trim(answer.s))])]),
               "List renamed")

\* Line 373 forgotten: the list goes, its cards stay in state.cards.
CascadeNothing(cards, list) == cards

\* Line 373: list.cardIds.forEach((cid) => delete state.cards[cid])
Cascade(cards, list) ==
  Without(cards, {PropertyKey(cid) : cid \in Range(CardIdsOf(list))})

\* deleteList(listId), lines 366-379; ok is what confirm() returned.
deleteList(b, listId, ok) ==
  LET i == FindList(ListsOf(b), listId)
  IN IF i = 0 THEN Early(b)
     ELSE IF ~ok THEN Early(b)
     ELSE Done(WithLists(WithCards(b, Cascade(CardsOf(b), ListsOf(b)[i])),
                         SelectSeq(ListsOf(b), LAMBDA l : Get(l, "id") # listId)),
               "List deleted")

\* createCard(listId, title, category, dueDate), lines 382-399
createCard(b, listId, title, category, dueDate, n, c) ==
  LET i == FindList(ListsOf(b), listId)
      id == uid("card", n)
  IN IF i = 0 THEN Early(b)
     ELSE LET card == CardObj(Str(id), title, Str(nowISO(c)),
                              Coalesce(category, Str("project")), Coalesce(dueDate, Null))
              lists == [ListsOf(b) EXCEPT ![i] = WithCardIds(@, Append(CardIdsOf(@), Str(id)))]
          IN Done(WithLists(WithCards(b, Put(CardsOf(b), id, card)), lists), "Card added")

\* editCard with the fallback of the importer at line 416: an answer that is
\* not a category makes the card a project.
editCardFallsBack(b, cardId, titleAns, catAns, dueAns) ==
  LET card == CardAt(b, cardId)
  IN IF ~Truthy(card) THEN Early(b)
     ELSE IF titleAns = Null THEN Early(b)
     ELSE IF Trim(titleAns.s) = "" THEN Early(b)
     ELSE LET cat == Str(ToLowerCase(Trim(Coalesce(catAns, Str("")).s)))
              valid == IF IsCategory(cat) THEN cat ELSE Str("project")
              dueClean == Trim(Coalesce(dueAns, Str("")).s)
              dueDate == IF dueClean # "" THEN Str(dueClean) ELSE Null
          IN IF card.t = "obj"
             THEN Done(WithCards(b, Put(CardsOf(b), PropertyKey(cardId),
                                        Obj([card.o EXCEPT !.title = Str(Trim(titleAns.s)),
                                                           !.category = valid,
                                                           !.dueDate = dueDate]))),
                       "Card updated")
             ELSE Done(b, "Card updated")

\* editCard(cardId), lines 401-429; the three answers are what the three
\* prompt() calls returned, null when cancelled.
editCard(b, cardId, titleAns, catAns, dueAns) ==
  LET card == CardAt(b, cardId)
  IN IF ~Truthy(card) THEN Early(b)
     ELSE IF titleAns = Null THEN Early(b)
     ELSE IF Trim(titleAns.s) = "" THEN Early(b)
     ELSE LET cat == Str(ToLowerCase(Trim(Coalesce(catAns, Str("")).s)))
              valid == IF IsCategory(cat) THEN cat ELSE Get(card, "category")
              dueClean == Trim(Coalesce(dueAns, Str("")).s)
              dueDate == IF dueClean # "" THEN Str(dueClean) ELSE Null
          IN IF card.t = "obj"
             THEN Done(WithCards(b, Put(CardsOf(b), PropertyKey(cardId),
                                        Obj([card.o EXCEPT !.title = Str(Trim(titleAns.s)),
                                                           !.category = valid,
                                                           !.dueDate = dueDate]))),
                       "Card updated")
             \* lines 422-424 wrote to an inherited function, not to the board
             ELSE Done(b, "Card updated")

\* deleteCard(cardId), lines 431-446
deleteCard(b, cardId, ok) ==
  IF ~Truthy(CardAt(b, cardId)) THEN Early(b)
  ELSE IF ~ok THEN Early(b)
  ELSE LET lists == [i \in DOMAIN ListsOf(b) |->
                       WithCardIds(ListsOf(b)[i], FilterOut(CardIdsOf(ListsOf(b)[i]), cardId))]
       IN Done(WithLists(WithCards(b, Without(CardsOf(b), {PropertyKey(cardId)})), lists),
               "Card deleted")

\* Line 456 forgotten: the card is never taken out of the list it is in.
RemoveFromListNever(lists, from, cardId) == lists

\* Line 456: if (fromList) fromList.cardIds = fromList.cardIds.filter(...)
RemoveFromList(lists, from, cardId) ==
  IF from = 0 THEN lists
  ELSE [lists EXCEPT ![from] = WithCardIds(@, FilterOut(CardIdsOf(@), cardId))]

\* Line 457 with unshift for push: the card is put first.
PushFirst(lists, to, cardId) ==
  IF Includes(CardIdsOf(lists[to]), cardId) THEN lists
  ELSE [lists EXCEPT ![to] = WithCardIds(@, <<cardId>> \o CardIdsOf(@))]

\* Line 457: if (!toList.cardIds.includes(cardId)) toList.cardIds.push(cardId)
PushIfAbsent(lists, to, cardId) ==
  IF Includes(CardIdsOf(lists[to]), cardId) THEN lists
  ELSE [lists EXCEPT ![to] = WithCardIds(@, Append(CardIdsOf(@), cardId))]

\* moveCardToList with the test of line 457 made before the filter of line
\* 456: a card dropped on its own list is removed and not put back.
moveCardToListTestFirst(b, cardId, targetListId) ==
  IF ~Truthy(CardAt(b, cardId)) THEN Early(b)
  ELSE LET from == FindListHolding(ListsOf(b), cardId)
           to == FindList(ListsOf(b), targetListId)
       IN IF to = 0 THEN Early(b)
          ELSE LET already == Includes(CardIdsOf(ListsOf(b)[to]), cardId)
                   removed == RemoveFromList(ListsOf(b), from, cardId)
               IN Done(WithLists(b, IF already THEN removed
                                    ELSE PushIfAbsent(removed, to, cardId)),
                       "Card moved")

\* moveCardToList(cardId, targetListId), lines 449-462.  fromList and toList
\* may be the same list object: the filter of line 456 is then seen by the
\* test of line 457.
moveCardToList(b, cardId, targetListId) ==
  IF ~Truthy(CardAt(b, cardId)) THEN Early(b)
  ELSE LET from == FindListHolding(ListsOf(b), cardId)
           to == FindList(ListsOf(b), targetListId)
       IN IF to = 0 THEN Early(b)
          ELSE Done(WithLists(b, PushIfAbsent(RemoveFromList(ListsOf(b), from, cardId),
                                              to, cardId)),
                    "Card moved")

(* -------------------------- export and import ------------------------- *)
\* exportBoard(), lines 465-479: the text of the downloaded file.
exportBoard(b) == JSONstringify(b, 2)

\* Line 522 testing the option labels ("Lab") instead of the keys ("lab").
importCategoryByLabel(cd) ==
  IF Get(cd, "category") \in {Str("Assignment"), Str("Lab"), Str("Project"), Str("Mod"),
                              Str("Unfinished")}
  THEN Get(cd, "category") ELSE Str("project")

\* Line 522: the card's category if it is one of the options, else "project".
importCategory(cd) ==
  IF IsCategory(Get(cd, "category")) THEN Get(cd, "category") ELSE Str("project")

\* Line 523 without the typeof test: the card's dueDate whatever it is.
importDueDateAsIs(cd) == Coalesce(Get(cd, "dueDate"), Null)

\* Line 523: the card's dueDate if it is a string, else null.
importDueDate(cd) ==
  IF TypeofIsString(Get(cd, "dueDate")) THEN Get(cd, "dueDate") ELSE Null

\* normalizeImportedState(parsed), lines 500-528: the normalized board, or the
\* error thrown (line 502, or a TypeError on a null list or card entry).
normalizeImportedState(parsed, n, c) ==
  IF ~Truthy(parsed) \/ ~TypeofIsObject(parsed)
  THEN [k |-> "throw", e |-> "Error: Invalid file", v |-> Undefined, uids |-> 0]
  ELSE LET lists == IF IsArray(Get(parsed, "lists")) THEN Get(parsed, "lists").a ELSE <<>>
           pcards == Get(parsed, "cards")
           cards == IF Truthy(pcards) /\ TypeofIsObject(pcards)
                    THEN ObjectEntries(pcards) ELSE {}
       IN IF \/ \E i \in DOMAIN lists : IsNullish(lists[i])
             \/ \E e \in cards : IsNullish(e[2])
          THEN [k |-> "throw", e |-> "TypeError", v |-> Undefined, uids |-> 0]
          ELSE [k |-> "value", e |-> "none",
                v |-> BoardObj(
                        [i \in DOMAIN lists |->
                           LET l == lists[i]
                           IN ListObj(
                                Coalesce(Get(l, "id"), Str(uid("list", n + UidsBefore(lists, i)))),
                                Coalesce(Get(l, "title"), Str("Untitled")),
                                IF IsArray(Get(l, "cardIds"))
                                THEN Get(l, "cardIds") ELSE Arr(<<>>))],
                        [id \in {e[1] : e \in cards} |->
                           LET cd == (CHOOSE e \in cards : e[1] = id)[2]
                           IN CardObj(
                                Coalesce(Get(cd, "id"), Str(id)),
                                Coalesce(Get(cd, "title"), Str("Untitled")),
                                Coalesce(Get(cd, "createdAt"), Str(nowISO(c))),
                                importCategory(cd),
                                importDueDate(cd))]),
                uids |-> UidsBefore(lists, Len(lists) + 1)]

\* reader.onload assigning `state = parsed` before it normalizes: a document
\* the normalization throws on is left in `state`.
onloadAssignsFirst(b, stored, text, n, c) ==
  LET parsed == JSONparse(text)
      norm == normalizeImportedState(parsed.v, n, c)
  IN IF parsed.ok /\ norm.k = "value"
     THEN [ok |-> TRUE, b |-> norm.v, stored |-> saveStateV2(norm.v),
           toast |-> "Imported board", alert |-> FALSE, uids |-> norm.uids]
     ELSE [ok |-> FALSE, b |-> IF parsed.ok THEN parsed.v ELSE b, stored |-> stored,
           toast |-> "Import failed (invalid JSON)", alert |-> TRUE, uids |-> 0]

\* reader.onload adding the imported lists and cards to the board it finds
\* instead of replacing it (line 487 as a merge).
onloadMerges(b, stored, text, n, c) ==
  LET parsed == JSONparse(text)
      norm == normalizeImportedState(parsed.v, n, c)
      merged == BoardObj(ListsOf(b) \o ListsOf(norm.v), CardsOf(norm.v) @@ CardsOf(b))
  IN IF parsed.ok /\ norm.k = "value"
     THEN [ok |-> TRUE, b |-> merged, stored |-> saveStateV2(merged),
           toast |-> "Imported board", alert |-> FALSE, uids |-> norm.uids]
     ELSE [ok |-> FALSE, b |-> b, stored |-> stored,
           toast |-> "Import failed (invalid JSON)", alert |-> TRUE, uids |-> 0]

\* reader.onload, lines 483-496: `state` and the storage item afterwards, and
\* what the user is told.  text is reader.result.
onload(b, stored, text, n, c) ==
  LET parsed == JSONparse(text)
      norm == normalizeImportedState(parsed.v, n, c)
  IN IF parsed.ok /\ norm.k = "value"
     THEN [ok |-> TRUE, b |-> norm.v, stored |-> saveStateV2(norm.v),
           toast |-> "Imported board", alert |-> FALSE, uids |-> norm.uids]
     ELSE [ok |-> FALSE, b |-> b, stored |-> stored,
           toast |-> "Import failed (invalid JSON)", alert |-> TRUE, uids |-> 0]

\* resetBoard(), lines 530-537
resetBoard(b, ok, n, c) ==
  IF ~ok THEN Early(b) ELSE Done(starterStateV2(n, c), "Reset complete")

(* ------------------------ inputs the runs draw ------------------------ *)
\* An imported document that breaks what the mutation handlers keep: two
\* lists with one id, a card in two lists, a card whose id is not its key, a
\* card id with no card, and fields that are missing or of the wrong type.
MessyDoc ==
  Obj([lists |-> Arr(<< Obj([id |-> Str("LA"), title |-> Str("A"),
                             cardIds |-> Arr(<<Str("K1")>>)]),
                        Obj([id |-> Str("LB"), cardIds |-> Arr(<<Str("K1"), Str("K2")>>)]),
                        Obj([id |-> Str("LB"), title |-> Str("B2"),
                             cardIds |-> Arr(<<Str("K3"), Str("K9")>>)]),
                        Obj([title |-> Str("D"), cardIds |-> Str("K2")]) >>),
       cards |-> Obj(("K1" :> Obj([id |-> Str("K1"), title |-> Str("one"),
                                   category |-> Str("urgent"), dueDate |-> Num(5)]))
                       @@ ("K2" :> Obj([id |-> Str("K3"), title |-> Str("two"),
                                        createdAt |-> Str("2025-01-01T00:00:00.000Z"),
                                        category |-> Str("lab"),
                                        dueDate |-> Str("2025-02-02")]))
                       @@ ("K3" :> Obj([id |-> Null])))])

\* The files the user may pick, beside the file just exported.
ImportFiles ==
  { Raw("not json"),
    JsonText(Arr(<<>>), 0), JsonText(Num(7), 0), JsonText(Str("x"), 0), JsonText(Null, 0),
    JsonText(Obj(<<>>), 0),
    JsonText(Obj([lists |-> Str("x"), cards |-> Num(5)]), 0),
    JsonText(Obj([lists |-> Arr(<<Obj([id |-> Str("L1")]), Null>>), cards |-> Obj(<<>>)]), 2),
    JsonText(Obj([lists |-> Arr(<<Obj([id |-> Str("L1")])>>),
                  cards |-> Obj(("C1" :> Obj([title |-> Str("x")])) @@ ("C2" :> Null))]), 2),
    JsonText(SavedBoard, 2),
    JsonText(MessyDoc, 2) }

\* The lists the user acts on: the first MaxPick columns.
Picked == SubSeq(ListsOf(state), 1, IF Len(ListsOf(state)) < MaxPick
                                    THEN Len(ListsOf(state)) ELSE MaxPick)
\* List ids a handler may be called with: the picked lists' ids and one no
\* list has.
ListArgs == {Get(l, "id") : l \in Range(Picked)} \cup {Str("list_gone")}
\* Card ids: the ids in the picked lists' cardIds (text/card-id of a drag, the
\* key a card was rendered from), the id fields of the cards they name (what
\* the card's listeners pass), and two ids of no card: a stale one, and one
\* that is the name of a member of Object.prototype.
CardArgs ==
  LET keys == UNION {Range(CardIdsOf(l)) : l \in Range(Picked)}
  IN keys
       \cup {Get(CardAt(state, k), "id") : k \in {x \in keys : Truthy(CardAt(state, x))}}
       \cup {Str("card_gone"), Str("constructor")}
\* What the user types into the rename prompt; null is a cancelled prompt.
TitleAnswers == {Null, Str("   "), Str(" Sprint ")}
\* The answers to editCard's three prompts (title, category, due date): each
\* prompt cancelled, left blank and answered at least once.
EditAnswers ==
  { <<Null, Null, Null>>,
    <<Str("   "), Null, Null>>,
    <<Str(" Sprint "), Str(" LAB "), Str(" 2026-12-01 ")>>,
    <<Str(" Sprint "), Str("urgent"), Null>>,
    <<Str(" Sprint "), Null, Str("   ")>> }
\* What the add-card form holds on submit: textarea, select, date input.
CardForms ==
  { <<Str("   "), Str("project"), Str("")>>,
    <<Str(" Fix bug "), Str("lab"), Str("2026-11-30")>>,
    <<Str(" Fix bug "), Str("unfinished"), Str("")>> }

(* ------------------------------ actions ------------------------------- *)
\* The event loop is idle and the run may handle one more event.
Idle == phase = "idle" /\ call = NoCall /\ clock <= MaxOps

\* A tab that reloads its board from the storage item another tab wrote.
StorageEventReloads(b, text) == JSONparse(text).v

\* What a write of another tab to the storage item does to the board b of a
\* tab: app.js registers listeners for submit, click and change only (lines
\* 540-556), none for the window's storage event, so b stays as it is.
StorageEvent(b, text) == b

\* A mutation handler ran with result r: saveStateV2() if it went past its
\* early returns.
Handled(op, args, r) ==
  /\ state' = r.b
  /\ storeV2' = IF r.done THEN saveStateV2(r.b) ELSE storeV2
  /\ call' = [op |-> op, args |-> args, done |-> r.done, toast |-> r.toast,
              alert |-> FALSE, pre |-> state, preV2 |-> storeV2, preUid |-> uidCount]
  /\ clock' = clock + 1
  /\ other' = IF r.done /\ other # Uninit THEN StorageEvent(other, saveStateV2(r.b)) ELSE other
  /\ UNCHANGED <<phase, storeOld, reading>>

\* The add-list form's submit listener, lines 540-547, calling createList.
CreateList ==
  /\ Idle
  /\ \E text \in {Str("   "), Str("Backlog")} :
       IF Trim(text.s) = ""
       THEN Handled("createList", [title |-> text], Early(state)) /\ UNCHANGED uidCount
       ELSE /\ Handled("createList", [title |-> text],
                       createList(state, Str(Trim(text.s)), uidCount))
            /\ uidCount' = uidCount + 1

RenameList ==
  /\ Idle
  /\ \E listId \in ListArgs, answer \in TitleAnswers :
       Handled("renameList", [listId |-> listId, answer |-> answer],
               renameList(state, listId, answer))
  /\ UNCHANGED uidCount

DeleteList ==
  /\ Idle
  /\ \E listId \in ListArgs, ok \in BOOLEAN :
       Handled("deleteList", [listId |-> listId, ok |-> ok], deleteList(state, listId, ok))
  /\ UNCHANGED uidCount

\* An add-card form's submit listener, lines 323-335, calling createCard.
CreateCard ==
  /\ Idle
  /\ \E listId \in ListArgs, form \in CardForms :
       LET text == Trim(form[1].s)
           r == createCard(state, listId, Str(text), form[2],
                           IF Truthy(form[3]) THEN form[3] ELSE Null, uidCount, clock)
           args == [listId |-> listId, title |-> form[1], category |-> form[2], due |-> form[3]]
       IN IF text = ""
          THEN Handled("createCard", args, Early(state)) /\ UNCHANGED uidCount
          ELSE /\ Handled("createCard", args, r)
               /\ uidCount' = IF r.done THEN uidCount + 1 ELSE uidCount

EditCard ==
  /\ Idle
  /\ \E cardId \in CardArgs, ans \in EditAnswers :
       Handled("editCard",
               [cardId |-> cardId, title |-> ans[1], category |-> ans[2], due |-> ans[3]],
               editCard(state, cardId, ans[1], ans[2], ans[3]))
  /\ UNCHANGED uidCount

DeleteCard ==
  /\ Idle
  /\ \E cardId \in CardArgs, ok \in BOOLEAN :
       Handled("deleteCard", [cardId |-> cardId, ok |-> ok], deleteCard(state, cardId, ok))
  /\ UNCHANGED uidCount

\* A drop on a list's cards container, lines 218-223, calling moveCardToList.
MoveCardToList ==
  /\ Idle
  /\ \E cardId \in CardArgs, listId \in ListArgs :
       Handled("moveCardToList", [cardId |-> cardId, listId |-> listId],
               moveCardToList(state, cardId, listId))
  /\ UNCHANGED uidCount

ResetBoard ==
  /\ Idle
  /\ \E ok \in BOOLEAN :
       /\ Handled("resetBoard", [ok |-> ok], resetBoard(state, ok, uidCount, clock))
       /\ uidCount' = IF ok THEN uidCount + StarterUids ELSE uidCount

ExportBoard ==
  /\ Idle
  /\ call' = [op |-> "exportBoard", args |-> [download |-> exportBoard(state)], done |-> TRUE,
              toast |-> "Exported JSON", alert |-> FALSE, pre |-> state, preV2 |-> storeV2,
              preUid |-> uidCount]
  /\ clock' = clock + 1
  /\ UNCHANGED <<phase, state, storeV2, storeOld, reading, uidCount, other>>

\* The import input's change listener, lines 552-556, and importBoardFromFile
\* up to reader.readAsText(file): the read is started and control returns.
ImportBoardFromFile ==
  /\ Idle
  /\ reading = NoFile
  /\ \E file \in ImportFiles \cup {exportBoard(state)} :
       /\ reading' = file
       /\ call' = [op |-> "importBoardFromFile", args |-> [file |-> file], done |-> TRUE,
                   toast |-> "", alert |-> FALSE, pre |-> state, preV2 |-> storeV2,
                   preUid |-> uidCount]
  /\ UNCHANGED <<phase, state, storeV2, storeOld, uidCount, clock, other>>

\* The FileReader's load event: reader.onload runs.
ImportLoaded ==
  /\ Idle
  /\ reading # NoFile
  /\ LET r == onload(state, storeV2, reading, uidCount, clock)
     IN /\ state' = r.b
        /\ storeV2' = r.stored
        /\ uidCount' = uidCount + r.uids
        /\ call' = [op |-> "onload", args |-> [file |-> reading], done |-> r.ok,
                    toast |-> r.toast, alert |-> r.alert, pre |-> state, preV2 |-> storeV2,
                    preUid |-> uidCount]
        /\ other' = IF r.ok /\ other # Uninit THEN StorageEvent(other, r.stored) ELSE other
  /\ reading' = NoFile
  /\ clock' = clock + 1
  /\ UNCHANGED <<phase, storeOld>>

\* The handler returns to the event loop.
Return ==
  /\ call # NoCall
  /\ phase = "idle"
  /\ call' = NoCall
  /\ UNCHANGED <<phase, state, storeV2, storeOld, reading, uidCount, clock, other>>

\* The page is opened on a browser with nothing stored.
Init ==
  /\ phase = "boot"
  /\ state = Uninit
  /\ storeV2 = NoItem
  /\ storeOld = NoItem
  /\ reading = NoFile
  /\ call = NoCall
  /\ uidCount = 0
  /\ clock = 0
  /\ other = Uninit

NextApi ==
  \/ Startup
  \/ Return
  \/ CreateList
  \/ RenameList
  \/ DeleteList
  \/ CreateCard
  \/ EditCard
  \/ DeleteCard
  \/ MoveCardToList

Next ==
  \/ NextApi
  \/ ResetBoard
  \/ ExportBoard
  \/ ImportBoardFromFile
  \/ ImportLoaded

\* The starter board and the mutation handlers only.
SpecApi == Init /\ [][NextApi]_vars
\* The whole page.
Spec == Init /\ [][Next]_vars

(* ----------------------------- a second tab --------------------------- *)
\* The same page open in a second tab: its own binding `state` (other), the
\* same localStorage.  The tab runs the same code; what it does is recorded in
\* `call` under op "peer".

\* The second tab is opened before the first has handled anything: line 32
\* in that tab.
PeerStartup ==
  /\ phase = "idle"
  /\ call = NoCall
  /\ clock = 1
  /\ other = Uninit
  /\ LET loaded == loadStateV2(storeV2)
         mig == migrateFromOldState(loadOldState(storeOld), Uninit, storeV2, uidCount, clock)
     IN IF ~IsNullish(loaded)
        THEN other' = loaded /\ UNCHANGED uidCount
        ELSE IF mig.k = "throw"
        THEN other' = Uninit /\ uidCount' = uidCount + mig.uids
        ELSE other' = starterStateV2(uidCount, clock) /\ uidCount' = uidCount + StarterUids
  /\ UNCHANGED <<phase, state, storeV2, storeOld, reading, call, clock>>

\* The second tab's event loop is idle and the run may handle one more event.
PeerIdle == Idle /\ other # Uninit

\* List ids the second tab's handlers may be called with.
PeerListArgs ==
  {Get(ListsOf(other)[i], "id") : i \in {j \in DOMAIN ListsOf(other) : j <= MaxPick}}
    \cup {Str("list_gone")}

\* A mutation handler of the second tab ran with result r.
PeerHandled(op, args, r) ==
  /\ other' = r.b
  /\ storeV2' = IF r.done THEN saveStateV2(r.b) ELSE storeV2
  /\ state' = IF r.done THEN StorageEvent(state, saveStateV2(r.b)) ELSE state
  /\ call' = [op |-> "peer", handler |-> op, args |-> args, done |-> r.done,
              toast |-> r.toast, alert |-> FALSE, pre |-> other, preV2 |-> storeV2,
              preUid |-> uidCount]
  /\ clock' = clock + 1
  /\ UNCHANGED <<phase, storeOld, reading>>

PeerCreateList ==
  /\ PeerIdle
  /\ PeerHandled("createList", [title |-> Str("Inbox")],
                 createList(other, Str(Trim("Inbox")), uidCount))
  /\ uidCount' = uidCount + 1

PeerRenameList ==
  /\ PeerIdle
  /\ \E listId \in PeerListArgs, answer \in TitleAnswers :
       PeerHandled("renameList", [listId |-> listId, answer |-> answer],
                   renameList(other, listId, answer))
  /\ UNCHANGED uidCount

PeerDeleteList ==
  /\ PeerIdle
  /\ \E listId \in PeerListArgs, ok \in BOOLEAN :
       PeerHandled("deleteList", [listId |-> listId, ok |-> ok], deleteList(other, listId, ok))
  /\ UNCHANGED uidCount

\* The first tab is opened on a browser that holds a saved board.
InitTabs ==
  /\ phase = "boot"
  /\ state = Uninit
  /\ storeV2 = saveStateV2(SavedBoard)
  /\ storeOld = NoItem
  /\ reading = NoFile
  /\ call = NoCall
  /\ uidCount = 0
  /\ clock = 0
  /\ other = Uninit

NextTabs ==
  \/ NextApi
  \/ PeerStartup
  \/ PeerCreateList
  \/ PeerRenameList
  \/ PeerDeleteList

\* Two tabs on one stored board, each with the list, card and drag handlers
\* (the second with the list handlers).
SpecTabs == InitTabs /\ [][NextTabs]_vars


(* ------------------------- vocabulary of the claims ------------------- *)
\* The places <<list index, position>> at which card id c occurs in the lists.
Occurrences(b, c) ==
  UNION { {<<i, j>> : j \in {x \in DOMAIN CardIdsOf(ListsOf(b)[i]) :
                               CardIdsOf(ListsOf(b)[i])[x] = c}} :
          i \in DOMAIN ListsOf(b) }
\* Every id in the lists' card sequences.
ListedIds(b) == UNION {Range(CardIdsOf(l)) : l \in Range(ListsOf(b))}
\* b.cards has a card of its own under key c.
HasCard(b, c) == PropertyKey(c) \in DOMAIN CardsOf(b)
HasList(b, id) == \E l \in Range(ListsOf(b)) : Get(l, "id") = id
\* The list a handler given this id acts on: the first one that has it.
ListIndex(b, id) == FindList(ListsOf(b), id)
\* s without its i-th element.
DropAt(s, i) == SubSeq(s, 1, i - 1) \o SubSeq(s, i + 1, Len(s))
Last(s) == s[Len(s)]
\* The last handler was moveCardToList, on a card and a list that existed.
Moved ==
  /\ call.op = "moveCardToList"
  /\ HasCard(call.pre, call.args.cardId)
  /\ HasList(call.pre, call.args.listId)
\* startup read these two storage items.
Booted == call.op = "startup"

(* -------------------------------- C1 ---------------------------------- *)
Integrity(b) ==
  /\ \A c \in ListedIds(b) : PropertyKey(c) \in DOMAIN CardsOf(b)
  /\ \A c \in ListedIds(b) : Cardinality(Occurrences(b, c)) = 1

\* C1: from the starter board, after any sequence of mutation handler calls
\* with any arguments, every id in every list's cardIds is a key of
\* state.cards, and every card id occurs in one list only and once in it.
C1_ReferentialIntegrity == phase = "idle" => Integrity(state)

\* A list that held two cards (one of them moved there) was deleted.
C1_Witness ==
  /\ call.op = "deleteList"
  /\ call.done
  /\ Len(CardIdsOf(ListsOf(call.pre)[ListIndex(call.pre, call.args.listId)])) = 2
  /\ Len(ListsOf(state)) = 4
  /\ Integrity(state)

(* -------------------------------- C2 ---------------------------------- *)
\* The legacy document has lists and cards (fields that are set, as line 103
\* tests them).
HasListsAndCards(old) == Truthy(Get(old, "lists")) /\ Truthy(Get(old, "cards"))
\* The tier the three-tier rule names for the two storage items.
TierOf(v2, old) ==
  IF v2 # NoItem /\ JSONparse(v2).ok /\ Get(JSONparse(v2).v, "version") = Num(2)
  THEN "load"
  ELSE IF old # NoItem /\ JSONparse(old).ok /\ HasListsAndCards(JSONparse(old).v)
  THEN "migrate"
  ELSE "seed"

\* C2: for every content of the two storage keys the initial board is the
\* stored V2 document if there is one with version 2, else the migration of
\* the legacy document if it has lists and cards, else the starter board.
\* (Of a legacy document whose lists or entries lines 105-123 cannot read,
\* nothing is asked here.)
C2_ThreeTierFallback ==
  Booted =>
    LET tier == TierOf(call.preV2, call.preOld)
        m == MigratedBoard(JSONparse(call.preOld).v, 0, 0)
    IN CASE tier = "load" -> state = JSONparse(call.preV2).v
         [] tier = "migrate" -> m.k = "value" => state = m.v
         [] OTHER -> state = starterStateV2(0, 0)

(* -------------------------------- C3 ---------------------------------- *)
\* The last handler was reader.onload.
Imported == call.op = "onload"
ImportFailureSignalled == call.alert /\ call.toast = "Import failed (invalid JSON)"

\* C3: importing a text that is not JSON, or whose top-level value is not an
\* object (an array, a number, a string, null), leaves the board and the
\* stored document unchanged and signals a failure.
C3_MalformedImportRejected ==
  (Imported /\ (~JSONparse(call.args.file).ok \/ JSONparse(call.args.file).v.t # "obj")) =>
    /\ state = call.pre
    /\ storeV2 = call.preV2
    /\ ImportFailureSignalled

(* -------------------------------- C4 ---------------------------------- *)
\* C4: when reader.onload completes, either the board is the normalized
\* document and the storage item its serialization, or parsing or normalizing
\* threw, board and storage item are what they were, and a failure is
\* signalled.
C4_NoPartialImport ==
  Imported =>
    LET parsed == JSONparse(call.args.file)
        norm == normalizeImportedState(parsed.v, call.preUid, clock - 1)
        raised == ~parsed.ok \/ norm.k = "throw"
    IN \/ /\ ~raised
          /\ state = norm.v
          /\ storeV2 = JsonText(norm.v, 0)
       \/ /\ raised
          /\ state = call.pre
          /\ storeV2 = call.preV2
          /\ ImportFailureSignalled

\* A document whose second card entry is null was imported: the first card
\* and the list were normalized before the TypeError.
C4_Witness ==
  /\ Imported
  /\ JSONparse(call.args.file).ok
  /\ JSONparse(call.args.file).v.t = "obj"
  /\ \E e \in ObjectEntries(Get(JSONparse(call.args.file).v, "cards")) : e[2] = Null
  /\ state = call.pre
  /\ call.alert

(* -------------------------------- C5 ---------------------------------- *)
\* Importing the exported file over any board gives back board b.
RoundTrips(b) ==
  LET r == onload(BoardObj(<<>>, <<>>), NoItem, exportBoard(b), uidCount, clock)
  IN r.ok /\ r.b = b

\* C5: for every board reached from the starter board by mutation handler
\* calls, importing the exported document yields the same board.
C5_RoundTrip == phase = "idle" => RoundTrips(state)

\* A card was given a new title, category and due date, and the board still
\* round-trips.
C5_Witness ==
  /\ call.op = "editCard"
  /\ call.done
  /\ HasCard(call.pre, call.args.cardId)
  /\ CardAt(state, call.args.cardId).o.dueDate = Str("2026-12-01")
  /\ CardAt(state, call.args.cardId).o.category # CardAt(call.pre, call.args.cardId).o.category
  /\ RoundTrips(state)

(* -------------------------------- C6 ---------------------------------- *)
\* A second moveCardToList with the same arguments changes no list, and the
\* card is once in the target list.
SecondMoveChangesNothing ==
  LET c == call.args.cardId
      second == moveCardToList(state, c, call.args.listId)
      target == ListsOf(state)[ListIndex(state, call.args.listId)]
  IN /\ ListsOf(second.b) = ListsOf(state)
     /\ Cardinality({j \in DOMAIN CardIdsOf(target) : CardIdsOf(target)[j] = c}) = 1

\* C6 as claimed: for every existing card c and existing list L, a second
\* moveCardToList(c, L) leaves L as the first call left it, c once in it, and
\* every other list unchanged.
C6_IdempotentMove == Moved => SecondMoveChangesNothing

\* C6 amended: the same, for a card that occurs at most once in the lists'
\* cardIds taken together.
C6_IdempotentMoveOfSingleCard ==
  (Moved /\ Cardinality(Occurrences(call.pre, call.args.cardId)) <= 1) =>
    SecondMoveChangesNothing

\* A card was moved from one list into another that already held a card.
C6_Witness ==
  /\ Moved
  /\ Cardinality(Occurrences(call.pre, call.args.cardId)) = 1
  /\ state # call.pre
  /\ Len(CardIdsOf(ListsOf(state)[ListIndex(state, call.args.listId)])) = 2
  /\ ~Includes(CardIdsOf(ListsOf(call.pre)[ListIndex(call.pre, call.args.listId)]),
               call.args.cardId)
  /\ SecondMoveChangesNothing

(* -------------------------------- C7 ---------------------------------- *)
\* The last handler was a confirmed deleteList of a list that existed.
Deleted == call.op = "deleteList" /\ call.args.ok /\ HasList(call.pre, call.args.listId)

\* The list is gone with the cards it named; nothing else changed.
CascadeOnly ==
  LET i == ListIndex(call.pre, call.args.listId)
      gone == {PropertyKey(c) : c \in Range(CardIdsOf(ListsOf(call.pre)[i]))}
  IN /\ ListsOf(state) = DropAt(ListsOf(call.pre), i)
     /\ DOMAIN CardsOf(state) = DOMAIN CardsOf(call.pre) \ gone
     /\ \A k \in DOMAIN CardsOf(state) : CardsOf(state)[k] = CardsOf(call.pre)[k]

\* C7 as claimed: a confirmed deleteList(L) removes L and the cards in
\* L.cardIds; every other list keeps its id, title, place and cardIds, and
\* every other card stays as it was.
C7_CascadeDelete == Deleted => CascadeOnly

\* C7 amended: the same, when no other list has L's id.
C7_CascadeDeleteOfUniqueList ==
  (Deleted /\ Cardinality({i \in DOMAIN ListsOf(call.pre) :
                             Get(ListsOf(call.pre)[i], "id") = call.args.listId}) = 1) =>
    CascadeOnly

\* A list holding two cards was deleted, other lists and cards remaining.
C7_Witness ==
  /\ Deleted
  /\ Len(CardIdsOf(ListsOf(call.pre)[ListIndex(call.pre, call.args.listId)])) = 2
  /\ Cardinality(DOMAIN CardsOf(state)) = Cardinality(DOMAIN CardsOf(call.pre)) - 2
  /\ Len(ListsOf(state)) >= 2
  /\ CascadeOnly

(* -------------------------------- C8 ---------------------------------- *)
\* The card is last in the target list and in no other list, and the other
\* ids of every list are in the order they were in.
MovedToEnd ==
  LET c == call.args.cardId
      t == ListIndex(state, call.args.listId)
  IN /\ Len(ListsOf(state)) = Len(ListsOf(call.pre))
     /\ CardIdsOf(ListsOf(state)[t]) # <<>>
     /\ Last(CardIdsOf(ListsOf(state)[t])) = c
     /\ \A i \in DOMAIN ListsOf(state) :
          /\ i # t => ~Includes(CardIdsOf(ListsOf(state)[i]), c)
          /\ FilterOut(CardIdsOf(ListsOf(state)[i]), c)
               = FilterOut(CardIdsOf(ListsOf(call.pre)[i]), c)

\* C8 as claimed: after moveCardToList(c, T) on an existing card and list, c
\* is the last element of T.cardIds, is in no other list, and the order of the
\* other ids of every list is unchanged.
C8_MoveAppends == Moved => MovedToEnd

\* C8 amended: the same, for a card that occurs at most once in the lists'
\* cardIds taken together.
C8_MoveAppendsSingleCard ==
  (Moved /\ Cardinality(Occurrences(call.pre, call.args.cardId)) <= 1) => MovedToEnd

\* A card left a list that keeps another card, for a list that held one.
C8_Witness ==
  /\ Moved
  /\ Cardinality(Occurrences(call.pre, call.args.cardId)) = 1
  /\ \E i \in DOMAIN ListsOf(call.pre) :
       /\ Includes(CardIdsOf(ListsOf(call.pre)[i]), call.args.cardId)
       /\ Len(CardIdsOf(ListsOf(call.pre)[i])) = 2
       /\ Get(ListsOf(call.pre)[i], "id") # call.args.listId
  /\ Len(CardIdsOf(ListsOf(state)[ListIndex(state, call.args.listId)])) = 1
  /\ MovedToEnd

(* -------------------------------- C9 ---------------------------------- *)
\* The last handler was moveCardToList of a card onto the list holding it.
MovedOntoOwnList ==
  /\ Moved
  /\ Includes(CardIdsOf(ListsOf(call.pre)[ListIndex(call.pre, call.args.listId)]),
              call.args.cardId)

\* C9 as claimed: moveCardToList(c, L) on a list L that contains c leaves
\* L.cardIds exactly as it was, wherever c is in it.
C9_OwnListUnchanged ==
  MovedOntoOwnList =>
    CardIdsOf(ListsOf(state)[ListIndex(state, call.args.listId)])
      = CardIdsOf(ListsOf(call.pre)[ListIndex(call.pre, call.args.listId)])

\* C9 amended: when c occurs once in the lists, in L, moveCardToList(c, L)
\* does not add c a second time but moves it to the end of L: the other ids
\* keep their order, c follows them, and every other list is unchanged; L is
\* as it was only when c was already last.
C9_OwnListMovesToEnd ==
  (MovedOntoOwnList /\ Cardinality(Occurrences(call.pre, call.args.cardId)) = 1) =>
    LET c == call.args.cardId
        t == ListIndex(call.pre, call.args.listId)
        before == CardIdsOf(ListsOf(call.pre)[t])
    IN /\ ListsOf(state) = [ListsOf(call.pre) EXCEPT
                              ![t] = WithCardIds(@, Append(FilterOut(before, c), c))]
       /\ (CardIdsOf(ListsOf(state)[t]) = before) <=> (Last(before) = c)

\* The first of a list's two cards was dropped on that list and is now last.
C9_Witness ==
  /\ MovedOntoOwnList
  /\ Cardinality(Occurrences(call.pre, call.args.cardId)) = 1
  /\ LET t == ListIndex(call.pre, call.args.listId)
     IN /\ Len(CardIdsOf(ListsOf(call.pre)[t])) = 2
        /\ CardIdsOf(ListsOf(call.pre)[t])[1] = call.args.cardId
        /\ CardIdsOf(ListsOf(state)[t])[2] = call.args.cardId

(* -------------------------------- C10 --------------------------------- *)
\* Startup found no V2 document to load and a legacy document that
\* migrateFromOldState builds a board from.
MigrationPath ==
  /\ Booted
  /\ IsNullish(loadStateV2(call.preV2))
  /\ LET old == loadOldState(call.preOld)
     IN /\ Truthy(old) /\ Truthy(Get(old, "lists")) /\ Truthy(Get(old, "cards"))
        /\ MigratedBoard(old, 0, 0).k = "value"

\* C10: on the migration path startup completes with the migrated board in
\* `state`, its serialization under STORAGE_KEY_V2, and STORAGE_KEY_OLD as it
\* was.
C10_MigrationPersists ==
  MigrationPath =>
    LET m == MigratedBoard(loadOldState(call.preOld), 0, 0).v
    IN /\ phase = "idle"
       /\ state = m
       /\ storeV2 = JsonText(m, 0)
       /\ storeOld = call.preOld

(* -------------------------------- C11 --------------------------------- *)
\* Startup found no V2 document to load and a legacy document with lists and
\* cards (fields that are set, as line 103 tests them).
LegacyWithListsAndCards ==
  /\ Booted
  /\ IsNullish(loadStateV2(call.preV2))
  /\ Truthy(loadOldState(call.preOld))
  /\ HasListsAndCards(loadOldState(call.preOld))

\* Board b is legacy document old with the defaults filled in: version 2, one
\* list per legacy list in the same order with its id (a generated one if it
\* has none), its title or "Untitled", its cardIds or none; one card per
\* legacy card key with its title or "Untitled", category project, no due date.
MigrationDefaults(old, b) ==
  LET ol == Get(old, "lists")
      oc == ObjectEntries(Get(old, "cards"))
  IN /\ IsArray(ol)
     /\ b.t = "obj"
     /\ Get(b, "version") = Num(2)
     /\ IsArray(Get(b, "lists"))
     /\ Len(ListsOf(b)) = Len(ol.a)
     /\ \A i \in DOMAIN ol.a :
          LET l == ol.a[i]
              m == ListsOf(b)[i]
          IN /\ IF IsNullish(Get(l, "id"))
                THEN Get(m, "id").t = "str" /\ Get(m, "id").s \in Range(ListUids)
                ELSE Get(m, "id") = Get(l, "id")
             /\ Get(m, "title") = IF IsNullish(Get(l, "title")) THEN Str("Untitled")
                                  ELSE Get(l, "title")
             /\ Get(m, "cardIds") = IF IsArray(Get(l, "cardIds")) THEN Get(l, "cardIds")
                                    ELSE Arr(<<>>)
     /\ Get(b, "cards").t = "obj"
     /\ DOMAIN CardsOf(b) = {e[1] : e \in oc}
     /\ \A e \in oc :
          LET card == CardsOf(b)[e[1]]
          IN /\ Get(card, "title") = IF IsNullish(Get(e[2], "title")) THEN Str("Untitled")
                                     ELSE Get(e[2], "title")
             /\ Get(card, "category") = Str("project")
             /\ Get(card, "dueDate") = Null

\* C11: for every legacy document with lists and cards, migration yields the
\* version-2 board with the defaults filled in; {lists: [{id: "L1"}], cards:
\* {C1: {title: "x"}}} yields list L1 "Untitled" with no cards and card C1 "x",
\* category project, no due date.
C11_MigrationDefaulting ==
  LegacyWithListsAndCards => MigrationDefaults(loadOldState(call.preOld), state)

\* The object lines 105-123 build, whenever they get to build it, has the
\* defaults filled in (line 126 then throws before anything can read it).
MigratedObjectHasDefaults ==
  LegacyWithListsAndCards =>
    LET m == MigratedBoard(loadOldState(call.preOld), 0, 0)
    IN m.k = "value" => MigrationDefaults(loadOldState(call.preOld), m.v)

(* -------------------------------- C12 --------------------------------- *)
\* C12: whatever the two storage keys hold, the top level of app.js runs to
\* its end without an error escaping, and `state` then holds a board (loaded,
\* migrated or the starter board).
C12_StartupNeverThrows ==
  Booted =>
    /\ phase = "idle"
    /\ call.err = "none"
    /\ state # Uninit

(* -------------------------------- C13 --------------------------------- *)
\* A file read is pending: importBoardFromFile has returned, reader.onload has
\* not run yet.
ReadPending == reading # NoFile

\* reader.onload has run on a document it accepts: board and storage item are
\* the normalized document, whatever the board was when it ran.
ImportReplacesBoard ==
  Imported =>
    LET parsed == JSONparse(call.args.file)
        norm == normalizeImportedState(parsed.v, call.preUid, clock - 1)
    IN (parsed.ok /\ norm.k = "value") =>
         /\ state = norm.v
         /\ storeV2 = saveStateV2(norm.v)

\* Starting a read changes neither the board nor the storage.
ImportStartChangesNothing ==
  (~ReadPending /\ reading' # NoFile) => UNCHANGED <<state, storeV2, storeOld>>

\* A handler that runs while the read is pending runs on the board as it is
\* (not on the file's), and leaves the read pending.
HandlersRunDuringRead ==
  (ReadPending /\ call = NoCall /\ call' # NoCall /\ call'.op # "onload") =>
    /\ call'.pre = state
    /\ reading' = reading

\* C13: from the start of a file import to its completion callback the import
\* changes neither board nor storage, handlers called in between run on the
\* board as it was before the import, and when the callback fires with a valid
\* document board and storage become the normalized document: the edits made
\* in between are gone from both.
C13_ImportLastWriterWins ==
  /\ []ImportReplacesBoard
  /\ [][ImportStartChangesNothing /\ HandlersRunDuringRead]_vars

\* The board was exported and the export picked for import; before the read
\* completed a handler changed the board and saved it; the callback put the
\* exported board back in `state` and in the storage.
C13_Witness ==
  /\ Imported
  /\ call.done
  /\ JSONparse(call.args.file).v = starterStateV2(0, 0)
  /\ call.pre # starterStateV2(0, 0)
  /\ call.preV2 = saveStateV2(call.pre)
  /\ state = starterStateV2(0, 0)
  /\ storeV2 = saveStateV2(starterStateV2(0, 0))

NoOpCondition ==
  /\ call # NoCall
  /\ \/ /\ call.op \in {"renameList", "deleteList", "createCard"}
        /\ ~HasList(call.pre, call.args.listId)
     \/ /\ call.op \in {"editCard", "deleteCard", "moveCardToList"}
        /\ ~HasCard(call.pre, call.args.cardId)
     \/ /\ call.op = "moveCardToList"
        /\ ~HasList(call.pre, call.args.listId)
     \/ /\ call.op \in {"deleteList", "deleteCard"}
        /\ ~call.args.ok
     \/ /\ call.op = "renameList"
        /\ (call.args.answer = Null \/ Trim(call.args.answer.s) = "")
     \/ /\ call.op = "editCard"
        /\ (call.args.title = Null \/ Trim(call.args.title.s) = "")

\* The card id the handler was given is the name of something every object
\* inherits.
InheritedName ==
  /\ call.op \in {"editCard", "deleteCard", "moveCardToList"}
  /\ PropertyKey(call.args.cardId) \in ObjectPrototypeKeys

\* C15: a handler called under one of its no-op conditions leaves the board
\* and both storage items as they were.
C15_NoOpChangesNothing ==
  [][(call = NoCall /\ NoOpCondition') => UNCHANGED <<state, storeV2, storeOld>>]_vars

\* The same, leaving out card ids that name an inherited member.
NoOpChangesNothingForOtherIds ==
  [][(call = NoCall /\ NoOpCondition' /\ ~InheritedName')
       => UNCHANGED <<state, storeV2, storeOld>>]_vars

(* -------------------------------- C16 --------------------------------- *)
\* No two lists of b have the same id, and no two cards of b.cards have the
\* same id field.
IdsUnique(b) ==
  /\ \A i, j \in DOMAIN ListsOf(b) :
       Get(ListsOf(b)[i], "id") = Get(ListsOf(b)[j], "id") => i = j
  /\ \A k, m \in DOMAIN CardsOf(b) :
       Get(CardsOf(b)[k], "id") = Get(CardsOf(b)[m], "id") => k = m

\* C16: in every board reached by startup, handlers, resets and accepted
\* imports of any JSON object, list ids are pairwise distinct and so are the
\* cards' ids.
C16_IdsUnique == phase = "idle" => IdsUnique(state)

(* -------------------------------- C17 --------------------------------- *)
\* reader.onload accepted a file whose top-level value is a JSON object.
ImportedObject ==
  /\ Imported
  /\ call.done
  /\ JSONparse(call.args.file).v.t = "obj"

\* Board b has version 2, lists with an id, a title and an array of card ids,
\* and cards with one of the five categories and a due date that is a string
\* or null.
WellFormed(b) ==
  /\ Get(b, "version") = Num(2)
  /\ IsArray(Get(b, "lists"))
  /\ \A l \in Range(ListsOf(b)) :
       /\ ~IsNullish(Get(l, "id"))
       /\ ~IsNullish(Get(l, "title"))
       /\ IsArray(Get(l, "cardIds"))
  /\ Get(b, "cards").t = "obj"
  /\ \A k \in DOMAIN CardsOf(b) :
       /\ IsCategory(Get(CardsOf(b)[k], "category"))
       /\ Get(CardsOf(b)[k], "dueDate").t \in {"str", "null"}

\* Each card of b has the category the document gave it if that is one of the
\* five, and project otherwise.
CategoriesKept(doc, b) ==
  \A e \in ObjectEntries(Get(doc, "cards")) :
    /\ e[1] \in DOMAIN CardsOf(b)
    /\ Get(CardsOf(b)[e[1]], "category") =
         IF IsCategory(Get(e[2], "category")) THEN Get(e[2], "category") ELSE Str("project")

\* C17: for every imported JSON object the resulting board has version 2,
\* every list has an id, a title and a cardIds sequence, every card has one of
\* the five categories (kept if recognized, project if not) and a due date that
\* is text or null.
C17_ImportWellFormed ==
  ImportedObject =>
    /\ WellFormed(state)
    /\ (Get(JSONparse(call.args.file).v, "cards").t = "obj"
          => CategoriesKept(JSONparse(call.args.file).v, state))

\* A document was imported with a list without id and title, a cardIds that
\* is a string, a card of category "urgent" with a number for due date, and a
\* card of category lab with a date.
C17_Witness ==
  /\ ImportedObject
  /\ JSONparse(call.args.file).v = MessyDoc
  /\ Get(CardsOf(state)["K1"], "category") = Str("project")
  /\ Get(CardsOf(state)["K1"], "dueDate") = Null
  /\ Get(CardsOf(state)["K2"], "category") = Str("lab")
  /\ Get(CardsOf(state)["K2"], "dueDate") = Str("2025-02-02")
  /\ Get(ListsOf(state)[4], "cardIds") = Arr(<<>>)
  /\ Get(ListsOf(state)[2], "title") = Str("Untitled")
  /\ WellFormed(state)

(* -------------------------------- C18 --------------------------------- *)
\* The last handler was editCard on a card the board had, with a title answer
\* that is not blank.
Edited ==
  /\ call # NoCall
  /\ call.op = "editCard"
  /\ HasCard(call.pre, call.args.cardId)
  /\ call.args.title # Null
  /\ Trim(call.args.title.s) # ""

\* C18: editCard on an existing card with a non-blank title answer sets the
\* title to the trimmed answer, the category to the trimmed lower-cased answer
\* if that is one of the five and leaves it otherwise (a cancelled prompt
\* included), the due date to the trimmed answer if there is one and to null
\* otherwise; the card's id and createdAt, the lists and every other card stay
\* as they were.
C18_EditCardEffect ==
  Edited =>
    LET k == PropertyKey(call.args.cardId)
        was == CardsOf(call.pre)[k]
        now == CardsOf(state)[k]
        cat == IF call.args.category = Null THEN Null
               ELSE Str(ToLowerCase(Trim(call.args.category.s)))
        due == IF call.args.due = Null THEN "" ELSE Trim(call.args.due.s)
    IN /\ DOMAIN CardsOf(state) = DOMAIN CardsOf(call.pre)
       /\ Get(now, "title") = Str(Trim(call.args.title.s))
       /\ Get(now, "category") = IF IsCategory(cat) THEN cat ELSE Get(was, "category")
       /\ Get(now, "dueDate") = IF due # "" THEN Str(due) ELSE Null
       /\ Get(now, "id") = Get(was, "id")
       /\ Get(now, "createdAt") = Get(was, "createdAt")
       /\ ListsOf(state) = ListsOf(call.pre)
       /\ \A j \in DOMAIN CardsOf(state) \ {k} : CardsOf(state)[j] = CardsOf(call.pre)[j]

\* A card with a due date was edited with "urgent" for category and the date
\* prompt cancelled: new title, same category, no due date.
C18_Witness ==
  /\ Edited
  /\ call.args.category = Str("urgent")
  /\ call.args.due = Null
  /\ LET k == PropertyKey(call.args.cardId)
     IN /\ Get(CardsOf(call.pre)[k], "dueDate") # Null
        /\ Get(CardsOf(call.pre)[k], "category") # Str("project")
        /\ Get(CardsOf(state)[k], "category") = Get(CardsOf(call.pre)[k], "category")
        /\ Get(CardsOf(state)[k], "dueDate") = Null
        /\ Get(CardsOf(state)[k], "title") = Str("Sprint")

(* -------------------------------- C20 --------------------------------- *)
\* Every card of b is stored under its own id.
KeysAreIds(b) == \A k \in DOMAIN CardsOf(b) : Get(CardsOf(b)[k], "id") = Str(k)

\* C20: in every board reached by startup, handlers, resets and accepted
\* imports, the card stored under key k has id k, so that the listeners of a
\* rendered card, which pass card.id, reach the card they were rendered from.
C20_CardKeyIsId == phase = "idle" => KeysAreIds(state)

(* -------------------------------- C19 --------------------------------- *)
\* A handler of the first tab, or of the second, runs in this step.
SelfActs == call = NoCall /\ call' # NoCall /\ call'.op # "peer"
PeerActs == call = NoCall /\ call' # NoCall /\ call'.op = "peer"

\* C19: of two tabs started from the same stored document, neither's writes
\* change the other's board, and whenever the storage item is written it
\* becomes the serialization of the writing tab's board, so that what the
\* other tab had stored before is gone.
C19_TabsDoNotCoordinate ==
  [][ /\ PeerActs => state' = state
      /\ SelfActs => other' = other
      /\ storeV2' # storeV2 =>
           /\ PeerActs => storeV2' = saveStateV2(other')
           /\ ~PeerActs => storeV2' = saveStateV2(state')
           /\ PeerActs \/ SelfActs ]_vars

\* Both tabs loaded the stored board; the first added a list and saved; the
\* second then renamed a list and saved: the storage item is the second
\* tab's board, without the first tab's list, which the first tab still shows.
C19_Witness ==
  /\ call.op = "peer"
  /\ call.done
  /\ call.pre = SavedBoard
  /\ call.preV2 = saveStateV2(state)
  /\ Len(ListsOf(state)) = Len(ListsOf(SavedBoard)) + 1
  /\ storeV2 = saveStateV2(other)
  /\ Len(ListsOf(JSONparse(storeV2).v)) = Len(ListsOf(SavedBoard))
  /\ other # state

====
